---- MODULE Spec2Model ----
(***************************************************************************)
(* Model of src/main.py: the BaseScraper page fetcher (static httpx client *)
(* and dynamic playwright browser), PfrScraper.scrape_schedule, the        *)
(* save_to_csv serializer and the script entrypoint.                       *)
(*                                                                         *)
(* Text is modelled as sequences of one-character strings so that strip,   *)
(* lower, int(), str() and the line structure of the written file are      *)
(* computed, not assumed.                                                  *)
(***************************************************************************)
EXTENDS Integers, Sequences, FiniteSets, TLC

\* ------------------------------------------------------------------ bounds
MaxBlocks == 2      \* game-summary blocks on one fetched page
MaxGames == 2       \* records accumulated by one scrape_schedule run
MaxFetches == 3     \* get_soup calls made by a direct caller
MaxRecords == 2     \* records handed to save_to_csv by a direct caller

\* ------------------------------------------------------- program constants
NumWeeks == 18      \* for i in range(18)
Year == 2023        \* year = 2023

\* ------------------------------------------------------------------- text
Digits == <<"0", "1", "2", "3", "4", "5", "6", "7", "8", "9">>
UpperCase == <<"A", "B", "C", "D", "E", "F", "G", "H", "I", "J", "K", "L", "M",
               "N", "O", "P", "Q", "R", "S", "T", "U", "V", "W", "X", "Y", "Z">>
LowerCase == <<"a", "b", "c", "d", "e", "f", "g", "h", "i", "j", "k", "l", "m",
               "n", "o", "p", "q", "r", "s", "t", "u", "v", "w", "x", "y", "z">>
Whitespace == {" ", "\n", "\t", "\r"}

IsDigit(c) == \E k \in 1..10 : Digits[k] = c
DigitVal(c) == (CHOOSE k \in 1..10 : Digits[k] = c) - 1

\* str.strip(): drop leading and trailing whitespace
RECURSIVE LStrip(_)
LStrip(s) == IF s # <<>> /\ Head(s) \in Whitespace THEN LStrip(Tail(s)) ELSE s
RECURSIVE RStrip(_)
RStrip(s) == IF s # <<>> /\ s[Len(s)] \in Whitespace
             THEN RStrip(SubSeq(s, 1, Len(s) - 1)) ELSE s
Strip(s) == RStrip(LStrip(s))

\* str.lower()
LowerChar(c) == IF \E k \in 1..26 : UpperCase[k] = c
                THEN LowerCase[CHOOSE k \in 1..26 : UpperCase[k] = c]
                ELSE c
Lower(s) == [k \in 1..Len(s) |-> LowerChar(s[k])]

\* int(str): surrounding whitespace, an optional sign, then decimal digits
\* that single underscores may separate; anything else is a ValueError.
UnsignedOk(s) ==
    /\ s # <<>>
    /\ IsDigit(s[1])
    /\ IsDigit(s[Len(s)])
    /\ \A k \in 1..Len(s) : IsDigit(s[k]) \/ s[k] = "_"
    /\ \A k \in 1..(Len(s) - 1) : ~(s[k] = "_" /\ s[k + 1] = "_")
RECURSIVE UnsignedVal(_, _)
UnsignedVal(s, acc) ==
    IF s = <<>> THEN acc
    ELSE IF Head(s) = "_" THEN UnsignedVal(Tail(s), acc)
    ELSE UnsignedVal(Tail(s), acc * 10 + DigitVal(Head(s)))
Unsigned(s) == IF s # <<>> /\ s[1] \in {"+", "-"} THEN Tail(s) ELSE s
IntParses(s) == UnsignedOk(Unsigned(Strip(s)))
IntValue(s) ==
    LET t == Strip(s)
    IN IF t[1] = "-" THEN 0 - UnsignedVal(Unsigned(t), 0)
       ELSE UnsignedVal(Unsigned(t), 0)

\* str(int): decimal digits, with a leading minus sign below zero
RECURSIVE NatStr(_)
NatStr(n) == IF n < 10 THEN <<Digits[n + 1]>>
             ELSE NatStr(n \div 10) \o <<Digits[(n % 10) + 1]>>
IntStr(n) == IF n < 0 THEN <<"-">> \o NatStr(0 - n) ELSE NatStr(n)

\* ----------------------------------------------------------------- values
\* A Python value held in a record: None, an int, a bool or a str.
NoneV == [t |-> "none", i |-> 0, b |-> FALSE, s |-> <<>>]
IntV(n) == [t |-> "int", i |-> n, b |-> FALSE, s |-> <<>>]
BoolV(x) == [t |-> "bool", i |-> 0, b |-> x, s |-> <<>>]
StrV(x) == [t |-> "str", i |-> 0, b |-> FALSE, s |-> x]

\* str(x) as save_to_csv applies it to every value
Str(v) ==
    CASE v.t = "none" -> <<"N", "o", "n", "e">>
      [] v.t = "int" -> IntStr(v.i)
      [] v.t = "bool" -> IF v.b THEN <<"T", "r", "u", "e">>
                         ELSE <<"F", "a", "l", "s", "e">>
      [] OTHER -> v.s

\* ----------------------------------------------------------------- markup
\* What scrape_schedule reads of one div.game_summary: whether it holds a
\* table.teams, the table's tr rows, and for each row its a elements (text
\* and href) and the texts of its td.right cells.
Link(text, href) == [text |-> text, href |-> href]
Row(links, right) == [links |-> links, right |-> right]

\* div.find("table", class_="teams"), element.find("a"), row.find("td", ...):
\* the first match, or None (the empty sequence here)
Find(elems) == IF elems = <<>> THEN <<>> ELSE <<elems[1]>>

\* ------------------------------------------------------------------- Game
\* Game(...): week, season, url, home_team, away_team are required, the
\* scores default to None and completed to False; url must be a str.
GameValid(url) == url.t = "str"
Game(home, away, week, season, url) ==
    [week |-> week, season |-> season, url |-> url.s,
     home_team |-> home, away_team |-> away,
     home_score |-> NoneV, away_score |-> NoneV, completed |-> FALSE]

\* game.model_dump(): the fields as a dict, in declaration order
ModelDump(g) ==
    << [k |-> "week", v |-> IntV(g.week)],
       [k |-> "season", v |-> IntV(g.season)],
       [k |-> "url", v |-> StrV(g.url)],
       [k |-> "home_team", v |-> StrV(g.home_team)],
       [k |-> "away_team", v |-> StrV(g.away_team)],
       [k |-> "home_score", v |-> g.home_score],
       [k |-> "away_score", v |-> g.away_score],
       [k |-> "completed", v |-> BoolV(g.completed)] >>

\* d[key] of a dict held as an ordered sequence of items
Get(d, key) == d[CHOOSE k \in 1..Len(d) : d[k].k = key].v

\* -------------------------------------------------------- scrape_schedule
Raise(kind) == [err |-> kind, game |-> <<>>]
Built(g) == [err |-> "none", game |-> <<ModelDump(g)>>]

\* if home_score and away_score:
ScoresFound(home_score, away_score) == home_score # <<>> /\ away_score # <<>>

\* link.text.strip().lower() == "final"
IsFinalNoLower(text) == Strip(text) = <<"f", "i", "n", "a", "l">>
IsFinal(text) == Lower(Strip(text)) = <<"f", "i", "n", "a", "l">>

\* The body of `if home_score and away_score:`; int() of the away score runs
\* first, and either int() may raise.
AttachScoresLenient(game, home_score, away_score, linkText) ==
    Built([game EXCEPT
        !.away_score = IF IntParses(away_score) THEN IntV(IntValue(away_score))
                       ELSE NoneV,
        !.home_score = IF IntParses(home_score) THEN IntV(IntValue(home_score))
                       ELSE NoneV,
        !.completed = IsFinal(linkText)])
AttachScores(game, home_score, away_score, linkText) ==
    IF ~IntParses(away_score) THEN Raise("ValueError")
    ELSE IF ~IntParses(home_score) THEN Raise("ValueError")
    ELSE Built([game EXCEPT !.away_score = IntV(IntValue(away_score)),
                            !.home_score = IntV(IntValue(home_score)),
                            !.completed = IsFinal(linkText)])

\* One pass of the `for summary in summaries` body over one block.
ExtractGame(b, week) ==
    IF ~b.hasTeams THEN Raise("AttributeError")          \* teams is None
    ELSE IF Len(b.rows) # 3 THEN Raise("ValueError")     \* unpack of 3
    ELSE
      LET away_row == b.rows[2]
          home_row == b.rows[3]
      IN
      IF Len(away_row.links) # 2 THEN Raise("ValueError") \* unpack of 2
      ELSE
        LET awayA == away_row.links[1]
            link == away_row.links[2]
            homeA == Find(home_row.links)
            awayTd == Find(away_row.right)
            homeTd == Find(home_row.right)
        IN
        IF homeA = <<>> THEN Raise("AttributeError")     \* home.text
        ELSE IF awayTd = <<>> THEN Raise("AttributeError")
        ELSE IF homeTd = <<>> THEN Raise("AttributeError")
        ELSE IF ~GameValid(link.href) THEN Raise("ValidationError")
        ELSE
          LET home == Strip(homeA[1].text)
              away == Strip(awayA.text)
              away_score == Strip(awayTd[1])
              home_score == Strip(homeTd[1])
              game == Game(home, away, week, Year, link.href)
          IN IF ScoresFound(home_score, away_score)
             THEN AttachScores(game, home_score, away_score, link.text)
             ELSE Built(game)

\* ------------------------------------------------------------ BaseScraper
\* cached_property client: the httpx.Client is constructed on first access
\* and the instance keeps it. c is the cached client (0: none yet), n the
\* number of clients constructed so far.
ClientUncached(c, n) == [client |-> n + 1, n |-> n + 1]
Client(c, n) == IF c = 0 THEN [client |-> n + 1, n |-> n + 1]
                ELSE [client |-> c, n |-> n]

\* _get_static_soup: client.get raises on a timeout or a refused connection
\* and returns the response otherwise, whatever its status code; the body
\* is parsed and returned. soup is <<document>> or <<>> when it raised.
StaticSoup(resp) ==
    IF resp.exc # "none" THEN [err |-> resp.exc, soup |-> <<>>]
    ELSE [err |-> "none", soup |-> <<resp.body>>]

\* Leaving `with sync_playwright() as p`: the driver is stopped and every
\* browser it launched that is still open goes down with it.
PlaywrightExitLeaking(open) == open
PlaywrightExit(open) == 0

\* _get_dynamic_soup, where `fail` names the step that raises ("none": no
\* step does): launch, new_page, goto, page.content()/BeautifulSoup, then
\* browser.close() on the path that reaches it, then the with block's exit.
DynamicSoup(fail, body) ==
    LET launched == IF fail = "launch" THEN 0 ELSE 1
        closed == IF fail = "none" THEN 1 ELSE 0
    IN [err |-> IF fail = "none" THEN "none" ELSE "PlaywrightError",
        soup |-> IF fail = "none" THEN <<body>> ELSE <<>>,
        launched |-> launched,
        open |-> PlaywrightExit(launched - closed)]

\* ------------------------------------------------------------ save_to_csv
KeyText(k) ==
    CASE k = "week" -> <<"w", "e", "e", "k">>
      [] k = "season" -> <<"s", "e", "a", "s", "o", "n">>
      [] k = "url" -> <<"u", "r", "l">>
      [] k = "home_team" -> <<"h", "o", "m", "e", "_", "t", "e", "a", "m">>
      [] k = "away_team" -> <<"a", "w", "a", "y", "_", "t", "e", "a", "m">>
      [] k = "home_score" -> <<"h", "o", "m", "e", "_", "s", "c", "o", "r", "e">>
      [] k = "away_score" -> <<"a", "w", "a", "y", "_", "s", "c", "o", "r", "e">>
      [] k = "completed" -> <<"c", "o", "m", "p", "l", "e", "t", "e", "d">>

\* [str(x) for x in d.keys()] and [str(x) for x in d.values()]
KeyStrs(d) == [k \in 1..Len(d) |-> KeyText(d[k].k)]
ValueStrs(d) == [k \in 1..Len(d) |-> Str(d[k].v)]

\* ",".join(strs)
RECURSIVE Join(_)
Join(strs) == IF strs = <<>> THEN <<>>
              ELSE IF Len(strs) = 1 THEN strs[1]
              ELSE strs[1] \o <<",">> \o Join(Tail(strs))

\* csv_rows = [data[0].keys(), *[x.values() for x in data]]
CsvRowsNoHeader(data) == [k \in 1..Len(data) |-> ValueStrs(data[k])]
CsvRows(data) == <<KeyStrs(data[1])>> \o [k \in 1..Len(data) |-> ValueStrs(data[k])]

\* the writes of the `for line in csv_rows` loop, one after the other
RECURSIVE WriteRowsUnterminated(_)
WriteRowsUnterminated(rows) ==
    IF rows = <<>> THEN <<>>
    ELSE Join(Head(rows)) \o WriteRowsUnterminated(Tail(rows))
RECURSIVE WriteRows(_)
WriteRows(rows) == IF rows = <<>> THEN <<>>
                   ELSE Join(Head(rows)) \o <<"\n">> \o WriteRows(Tail(rows))

\* save_to_csv(filename, data): the error raised and the file afterwards.
\* open(filename, "w") creates or truncates; it is reached only past the check.
Absent == [exists |-> FALSE, text |-> <<>>]
SaveToCsvOpenFirst(f, d) ==
    IF d = <<>> THEN [err |-> "ValueError", file |-> [exists |-> TRUE, text |-> <<>>]]
    ELSE [err |-> "none", file |-> [exists |-> TRUE, text |-> WriteRows(CsvRows(d))]]
SaveToCsv(f, d) ==
    IF d = <<>> THEN [err |-> "ValueError", file |-> f]
    ELSE [err |-> "none", file |-> [exists |-> TRUE, text |-> WriteRows(CsvRows(d))]]

\* ------------------------------------------------------------ input sets
Txt_Final == <<"F", "i", "n", "a", "l">>
Txt_FINAL == <<" ", "F", "I", "N", "A", "L", "\n">>
Txt_Preview == <<"P", "r", "e", "v", "i", "e", "w">>
Txt_Finals == <<"F", "i", "n", "a", "l", "s">>
Txt_24 == <<"2", "4">>
Txt_17 == <<" ", "1", "7", "\n">>
Txt_x7 == <<"x", "7">>
Txt_neg == <<"-", "3">>
Txt_sp == <<" ">>
Txt_1_0 == <<"1", "_", "0">>
Txt_final == <<"f", "i", "n", "a", "l">>
Txt_DET == <<"D", "E", "T">>
Txt_KC == <<" ", "K", "C", " ">>
Txt_NYJ == <<"N", "Y", "J">>
Txt_BUF == <<"B", "U", "F">>
Url_a == <<"/", "a">>
Url_b == <<"/", "b">>

DateRow == Row(<<>>, <<>>)
\* a block of the shape the page is expected to have
TeamsBlock(away, home, url, awayScore, homeScore, linkText) ==
    [hasTeams |-> TRUE,
     rows |-> << DateRow,
                 Row(<<Link(away, StrV(<<>>)), Link(linkText, StrV(url))>>,
                     <<awayScore>>),
                 Row(<<Link(home, StrV(<<>>))>>, <<homeScore>>) >>]

Unplayed == TeamsBlock(Txt_NYJ, Txt_BUF, Url_b, <<>>, <<>>, Txt_Preview)
Played == TeamsBlock(Txt_DET, Txt_KC, Url_a, Txt_24, Txt_17, Txt_FINAL)

\* b with one thing about its shape changed
Reshape(b, shape) ==
    CASE shape = "NoTeams" -> [hasTeams |-> FALSE, rows |-> <<>>]
      [] shape = "TwoRows" -> [b EXCEPT !.rows = Tail(b.rows)]
      [] shape = "FourRows" -> [b EXCEPT !.rows = <<DateRow>> \o b.rows]
      [] shape = "OneAwayLink" -> [b EXCEPT !.rows[2].links = <<b.rows[2].links[1]>>]
      [] shape = "ThreeAwayLinks" ->
             [b EXCEPT !.rows[2].links = b.rows[2].links \o <<Link(Txt_Final, StrV(Url_b))>>]
      [] shape = "NoHomeLink" -> [b EXCEPT !.rows[3].links = <<>>]
      [] shape = "NoAwayCell" -> [b EXCEPT !.rows[2].right = <<>>]
      [] shape = "NoHomeCell" -> [b EXCEPT !.rows[3].right = <<>>]
      [] shape = "BadAwayScore" -> [b EXCEPT !.rows[2].right = <<Txt_x7>>]
      [] shape = "BadHomeScore" -> [b EXCEPT !.rows[3].right = <<Txt_x7>>]
      [] shape = "NoHref" -> [b EXCEPT !.rows[2].links[2].href = NoneV]
      [] OTHER -> b

\* The markup of the block a page names
Markup(id) ==
    CASE id = "Unplayed" -> Unplayed
      [] id = "Played" -> Played
      [] OTHER -> Reshape(Played, id)

GoodBlocks == {"Unplayed", "Played"}
BadBlocks == {"NoTeams", "TwoRows", "FourRows", "OneAwayLink", "ThreeAwayLinks",
              "NoHomeLink", "NoAwayCell", "NoHomeCell", "BadAwayScore",
              "BadHomeScore", "NoHref"}

\* ExtractGame of every block a page may name, in every week
Extracted == [id \in GoodBlocks \cup BadBlocks, week \in 1..NumWeeks |->
                 ExtractGame(Markup(id), week)]

\* The `for summary in summaries` loop over one page, a sequence of block
\* names: the records appended so far, and the error that ended the loop,
\* if any.
RECURSIVE ScrapePagePrepending(_, _, _)
ScrapePagePrepending(blocks, week, acc) ==
    IF blocks = <<>> THEN [err |-> "none", games |-> acc]
    ELSE LET r == Extracted[Head(blocks), week]
         IN IF r.err # "none" THEN [err |-> r.err, games |-> acc]
            ELSE ScrapePagePrepending(Tail(blocks), week, r.game \o acc)
RECURSIVE ScrapePageSkipping(_, _, _)
ScrapePageSkipping(blocks, week, acc) ==
    IF blocks = <<>> THEN [err |-> "none", games |-> acc]
    ELSE LET r == Extracted[Head(blocks), week]
         IN ScrapePageSkipping(Tail(blocks), week, acc \o r.game)
RECURSIVE ScrapePage(_, _, _)
ScrapePage(blocks, week, acc) ==
    IF blocks = <<>> THEN [err |-> "none", games |-> acc]
    ELSE LET r == Extracted[Head(blocks), week]
         IN IF r.err # "none" THEN [err |-> r.err, games |-> acc]
            ELSE ScrapePage(Tail(blocks), week, acc \o r.game)

\* sequences over S of length 0..n
RECURSIVE SeqsUpTo(_, _)
SeqsUpTo(S, n) ==
    IF n = 0 THEN {<<>>}
    ELSE LET shorter == SeqsUpTo(S, n - 1)
         IN shorter \cup {Append(q, x) : q \in {t \in shorter : Len(t) = n - 1}, x \in S}

Min(a, b) == IF a < b THEN a ELSE b

\* Pages a week's request may bring: up to MaxBlocks blocks, of which at
\* most `room` are of the expected shape (room keeps the list within
\* MaxGames); a block of an unexpected shape ends the page, since the loop
\* reads nothing after it.
Pages(room) ==
    LET good == SeqsUpTo(GoodBlocks, Min(room, MaxBlocks))
    IN good \cup {Append(q, x) : q \in {t \in good : Len(t) < MaxBlocks}, x \in BadBlocks}

\* What client.get meets: an exception of the transport, a 200 response
\* with a page, or an error response whose body is empty or itself carries
\* game markup.
ErrorPages(room) == {<<>>} \cup (IF room > 0 THEN {<<"Played">>} ELSE {})
Responses(room) ==
    {[exc |-> e, status |-> 0, body |-> <<>>] : e \in {"TimeoutException", "ConnectError"}}
    \cup {[exc |-> "none", status |-> 200, body |-> p] : p \in Pages(room)}
    \cup {[exc |-> "none", status |-> st, body |-> p] : st \in {404}, p \in ErrorPages(room)}
\* The blocks the loop body is tried on alone: every pair of score cells and
\* every result-link text, in the expected shape and in each other one.
ScoreTexts == {<<>>, Txt_sp, Txt_24, Txt_17, Txt_x7, Txt_neg, Txt_1_0}
LinkTexts == {<<>>, Txt_Final, Txt_FINAL, Txt_final, Txt_Preview, Txt_Finals}
CellShapes == {"Expected", "NoTeams", "TwoRows", "OneAwayLink", "NoHomeLink",
               "NoAwayCell", "NoHomeCell", "NoHref"}
Blocks == {Reshape(TeamsBlock(Txt_DET, Txt_KC, Url_a, a, h, l), sh) :
               a \in ScoreTexts, h \in ScoreTexts, l \in LinkTexts, sh \in CellShapes}

ResponsesFor == [room \in 0..MaxGames |-> Responses(room)]

\* ------------------------------------------------------------------ state
VARIABLES
    pc,        \* where the running caller stands
    i,         \* scrape_schedule: the loop index
    games,     \* scrape_schedule: the list being built
    ret,       \* scrape_schedule's return value, <<list>> once it returned
    err,       \* the exception that ended the run, "none" if none
    client,    \* the cached httpx client, 0 before it is constructed
    nclients,  \* how many httpx clients have been constructed
    fetchLog,  \* every get_soup call: its url, mode, client and document
    last,      \* the latest get_soup call: what the request met, what came back
    browsers,  \* browser instances now open
    file,      \* the output file: whether it exists and its text
    file0,     \* the output file as it was before the call
    data,      \* the argument of a direct save_to_csv call
    blk,       \* the game-summary block the loop body is tried on
    out        \* <<what the loop body made of blk>>, <<>> before it ran

vars == <<pc, i, games, ret, err, client, nclients, fetchLog, last, browsers, file, file0, data,
          blk, out>>

NoBlock == [hasTeams |-> FALSE, rows |-> <<>>]
NoFetch == [exc |-> "none", status |-> 0, returned |-> FALSE, records |-> 0]
OldFile == [exists |-> TRUE, text |-> <<"o", "l", "d", "\n">>]

\* ------------------------------------------------------------- entrypoint
\* scraper = PfrScraper(); games = scraper.scrape_schedule() is entered
Init ==
    /\ pc = "scrape"
    /\ i = 0
    /\ games = <<>>
    /\ ret = <<>>
    /\ err = "none"
    /\ client = 0
    /\ nclients = 0
    /\ fetchLog = <<>>
    /\ last = NoFetch
    /\ browsers = 0
    /\ file = Absent
    /\ file0 = file
    /\ data = <<>>
    /\ blk = NoBlock
    /\ out = <<>>

\* One iteration of `for i in range(18)`: get_soup of the week's page, then
\* the loop over its game summaries; the last iteration falls through to
\* `return games`.
ScrapeWeek(resp) ==
    /\ pc = "scrape"
    /\ i < NumWeeks
    /\ LET c == Client(client, nclients)
           f == StaticSoup(resp)
           r == IF f.err = "none" THEN ScrapePage(f.soup[1], i + 1, games)
                ELSE [err |-> f.err, games |-> games]
       IN /\ client' = c.client
          /\ nclients' = c.n
          /\ fetchLog' = Append(fetchLog,
                 [year |-> Year, week |-> i + 1, dynamic |-> FALSE, client |-> c.client,
                  soup |-> f.soup])
          /\ last' = [exc |-> resp.exc, status |-> resp.status,
                      returned |-> f.soup # <<>>,
                      records |-> Len(r.games) - Len(games)]
          /\ games' = r.games
          /\ err' = r.err
          /\ IF r.err # "none"
             THEN pc' = "crashed" /\ i' = i /\ ret' = ret
             ELSE /\ i' = i + 1
                  /\ IF i + 1 = NumWeeks
                     THEN pc' = "save" /\ ret' = <<r.games>>
                     ELSE pc' = "scrape" /\ ret' = ret
    /\ UNCHANGED <<browsers, file, file0, data, blk, out>>

\* save_to_csv(filename="2023_nfl_schedule.csv", data=games)
MainSave ==
    /\ pc = "save"
    /\ LET r == SaveToCsv(file, ret[1])
       IN /\ file' = r.file
          /\ err' = r.err
          /\ pc' = IF r.err = "none" THEN "done" ELSE "crashed"
    /\ UNCHANGED <<i, games, ret, client, nclients, fetchLog, last, browsers, file0, data, blk, out>>

Next ==
    \/ \E resp \in ResponsesFor[MaxGames - Len(games)] : ScrapeWeek(resp)
    \/ MainSave

Spec == Init /\ [][Next]_vars

\* ------------------------------------------------- the loop body, alone
\* scrape_schedule stands at iteration i with one game summary in hand and
\* nothing appended yet. Only the loop body's inputs vary here; the fetches
\* that brought the page are those of Spec and are not replayed.
InitBlock ==
    /\ pc = "summary"
    /\ i \in 0..(NumWeeks - 1)
    /\ blk \in Blocks
    /\ out = <<>>
    /\ games = <<>>
    /\ ret = <<>>
    /\ err = "none"
    /\ client = 1
    /\ nclients = 1
    /\ fetchLog = <<>>
    /\ last = NoFetch
    /\ browsers = 0
    /\ file = Absent
    /\ file0 = file
    /\ data = <<>>

\* lines 107-148 for that summary: games.append(game.model_dump()) or raise
ExtractOne ==
    /\ pc = "summary"
    /\ LET r == ExtractGame(blk, i + 1)
       IN /\ out' = <<r>>
          /\ games' = games \o r.game
          /\ err' = r.err
          /\ pc' = IF r.err = "none" THEN "appended" ELSE "crashed"
    /\ UNCHANGED <<i, ret, client, nclients, fetchLog, last, browsers, file, file0,
                   data, blk>>

NextBlock == ExtractOne
SpecBlock == InitBlock /\ [][NextBlock]_vars

\* ------------------------------------------------- get_soup, called directly
Urls == {1, NumWeeks}
FailSteps == {"launch", "new_page", "goto", "content"}
\* what a direct static call's request meets
FetchResponses ==
    {[exc |-> e, status |-> 0, body |-> <<>>] : e \in {"TimeoutException", "ConnectError"}}
    \cup {[exc |-> "none", status |-> st, body |-> <<"Played">>] : st \in {200, 404, 503}}

InitFetch ==
    /\ pc = "caller"
    /\ i = 0
    /\ games = <<>>
    /\ ret = <<>>
    /\ err = "none"
    /\ client = 0
    /\ nclients = 0
    /\ fetchLog = <<>>
    /\ last = NoFetch
    /\ browsers = 0
    /\ file = Absent
    /\ file0 = file
    /\ data = <<>>
    /\ blk = NoBlock
    /\ out = <<>>

\* get_soup(url, dynamic=False)
GetSoupStatic(week, resp) ==
    /\ pc = "caller"
    /\ Len(fetchLog) < MaxFetches
    /\ LET c == Client(client, nclients)
           f == StaticSoup(resp)
       IN /\ client' = c.client
          /\ nclients' = c.n
          /\ fetchLog' = Append(fetchLog,
                 [year |-> Year, week |-> week, dynamic |-> FALSE, client |-> c.client,
                  soup |-> f.soup])
          /\ last' = [exc |-> resp.exc, status |-> resp.status,
                      returned |-> f.soup # <<>>, records |-> 0]
          /\ err' = f.err
    /\ UNCHANGED <<pc, i, games, ret, browsers, file, file0, data, blk, out>>

\* get_soup(url, dynamic=True)
GetSoupDynamic(week, fail, body) ==
    /\ pc = "caller"
    /\ Len(fetchLog) < MaxFetches
    /\ LET d == DynamicSoup(fail, body)
       IN /\ browsers' = browsers + d.open
          /\ fetchLog' = Append(fetchLog,
                 [year |-> Year, week |-> week, dynamic |-> TRUE, client |-> 0,
                  soup |-> d.soup])
          /\ last' = [exc |-> fail, status |-> 0, returned |-> d.soup # <<>>,
                      records |-> 0]
          /\ err' = d.err
    /\ UNCHANGED <<pc, i, games, ret, client, nclients, file, file0, data, blk, out>>

NextFetch ==
    \/ \E week \in Urls, resp \in FetchResponses : GetSoupStatic(week, resp)
    \/ \E week \in Urls, fail \in FailSteps \cup {"none"} :
           GetSoupDynamic(week, fail, <<"Played">>)

SpecFetch == InitFetch /\ [][NextFetch]_vars

\* ---------------------------------------------- save_to_csv, called directly
CsvKeys == {<<"url", "week">>, <<"week", "url">>, <<"home_team">>}
CsvValues == {IntV(0 - 30), NoneV, BoolV(FALSE),
              StrV(<<"K", ",", "C">>), StrV(<<"N", "\n", "Y">>)}
\* the dicts with the keys ks in that order
Dicts(ks) == {[k \in 1..Len(ks) |-> [k |-> ks[k], v |-> vs[k]]] :
                  vs \in [1..Len(ks) -> CsvValues]}
\* the uniform lists of n such dicts
DataSets(ks, n) == [1..n -> Dicts(ks)]

InitCsv ==
    /\ pc = "call"
    /\ \E ks \in CsvKeys, n \in 0..MaxRecords : data \in DataSets(ks, n)
    /\ file \in {Absent, OldFile}
    /\ file0 = file
    /\ i = 0
    /\ games = <<>>
    /\ ret = <<>>
    /\ err = "none"
    /\ client = 0
    /\ nclients = 0
    /\ fetchLog = <<>>
    /\ last = NoFetch
    /\ browsers = 0
    /\ blk = NoBlock
    /\ out = <<>>

\* save_to_csv(filename, data)
SaveCall ==
    /\ pc = "call"
    /\ LET r == SaveToCsv(file, data)
       IN /\ file' = r.file
          /\ err' = r.err
          /\ pc' = IF r.err = "none" THEN "returned" ELSE "raised"
    /\ UNCHANGED <<i, games, ret, client, nclients, fetchLog, last, browsers, file0,
                   data, blk, out>>

NextCsv == SaveCall
SpecCsv == InitCsv /\ [][NextCsv]_vars

\* ================================================================ claims

\* C1: every record appended to the result is either unplayed (both scores
\* None and completed False) or scored (both scores integers); none has
\* exactly one score, and completed is True only with both scores present.
C1_BothScoresOrNone ==
    \A k \in 1..Len(games) :
        LET hs == Get(games[k], "home_score")
            as == Get(games[k], "away_score")
            done == Get(games[k], "completed")
        IN /\ \/ hs = NoneV /\ as = NoneV /\ done = BoolV(FALSE)
              \/ hs.t = "int" /\ as.t = "int"
           /\ done = BoolV(TRUE) => hs # NoneV /\ as # NoneV

\* a scored record that is not completed, and so not decided by the defaults
C1_Witness ==
    /\ pc = "appended"
    /\ Len(games) = 1
    /\ blk.rows[2].links[2].text = Txt_Preview
    /\ Get(games[1], "home_score") = IntV(17)
    /\ Get(games[1], "away_score") = IntV(24)
    /\ Get(games[1], "completed") = BoolV(FALSE)

\* what the three inputs of a block mean, written out for the texts tried
EmptyScore(cell) == cell \in {<<>>, Txt_sp}
ExpectedInt(cell) ==
    CASE cell = Txt_24 -> 24
      [] cell = Txt_17 -> 17
      [] cell = Txt_neg -> 0 - 3
      [] cell = Txt_1_0 -> 10
ExpectedFinal(linkText) == linkText \in {Txt_Final, Txt_FINAL, Txt_final}

\* C2: the record built from a block carries the integer parse of both score
\* strings, and completed exactly when the link text lowercased and trimmed
\* is "final", if and only if both score strings are non-empty; otherwise
\* both scores are None and completed is False whatever the link text.
C2_ScoresIffBothNonEmpty ==
    (out # <<>> /\ out[1].err = "none") =>
        LET g == out[1].game[1]
            awayCell == blk.rows[2].right[1]
            homeCell == blk.rows[3].right[1]
            linkText == blk.rows[2].links[2].text
        IN IF ~EmptyScore(awayCell) /\ ~EmptyScore(homeCell)
           THEN /\ Get(g, "away_score") = IntV(ExpectedInt(awayCell))
                /\ Get(g, "home_score") = IntV(ExpectedInt(homeCell))
                /\ Get(g, "completed") = BoolV(ExpectedFinal(linkText))
           ELSE /\ Get(g, "away_score") = NoneV
                /\ Get(g, "home_score") = NoneV
                /\ Get(g, "completed") = BoolV(FALSE)

\* away "24", home " 17\n", link " FINAL\n": 24, 17, completed
C2_Witness ==
    /\ out # <<>>
    /\ out[1].err = "none"
    /\ blk.rows[2].right[1] = Txt_24
    /\ blk.rows[3].right[1] = Txt_17
    /\ blk.rows[2].links[2].text = Txt_FINAL
    /\ Get(out[1].game[1], "away_score") = IntV(24)
    /\ Get(out[1].game[1], "home_score") = IntV(17)
    /\ Get(out[1].game[1], "completed") = BoolV(TRUE)

\* the blocks of the documents get_soup returned, in the order fetched, each
\* with the week of its request
RECURSIVE Origins(_)
Origins(log) ==
    IF log = <<>> THEN <<>>
    ELSE LET e == log[Len(log)]
             page == IF e.soup = <<>> THEN <<>> ELSE e.soup[1]
         IN Origins(SubSeq(log, 1, Len(log) - 1))
            \o [k \in 1..Len(page) |-> [week |-> e.week, id |-> page[k]]]
ExpectedUrl(id) == IF id = "Unplayed" THEN Url_b ELSE Url_a

\* C3: the weeks' pages are fetched once each, in static mode, in ascending
\* order; and what scrape_schedule returns is one record per block of the
\* pages of weeks 1..18, in week order and within a week in page order,
\* each with season 2023 and the week of its page.
C3_OneRecordPerBlockInOrder ==
    /\ \A k \in 1..Len(fetchLog) :
           /\ fetchLog[k].week = k
           /\ fetchLog[k].year = 2023
           /\ ~fetchLog[k].dynamic
    /\ ret # <<>> =>
           /\ Len(fetchLog) = 18
           /\ LET o == Origins(fetchLog)
              IN /\ Len(ret[1]) = Len(o)
                 /\ \A j \in 1..Len(o) :
                        /\ Get(ret[1][j], "week") = IntV(o[j].week)
                        /\ Get(ret[1][j], "season") = IntV(2023)
                        /\ Get(ret[1][j], "url") = StrV(ExpectedUrl(o[j].id))

\* two different games of one week, returned in page order
C3_Witness ==
    /\ ret # <<>>
    /\ Len(ret[1]) = 2
    /\ Get(ret[1][1], "week") = Get(ret[1][2], "week")
    /\ Get(ret[1][1], "url") = StrV(Url_b)
    /\ Get(ret[1][2], "url") = StrV(Url_a)

\* the lines a reader of the file gets: the text up to each "\n", and what
\* follows the last one if anything does
RECURSIVE ReadLinesFrom(_, _)
ReadLinesFrom(text, line) ==
    IF text = <<>> THEN (IF line = <<>> THEN <<>> ELSE <<line>>)
    ELSE IF Head(text) = "\n" THEN <<line>> \o ReadLinesFrom(Tail(text), <<>>)
    ELSE ReadLinesFrom(Tail(text), Append(line, Head(text)))
ReadLines(text) == ReadLinesFrom(text, <<>>)

ExpectedHeader ==
    <<"w", "e", "e", "k", ",", "s", "e", "a", "s", "o", "n", ",", "u",
    "r", "l", ",", "h", "o", "m", "e", "_", "t", "e", "a", "m", ",", "a",
    "w", "a", "y", "_", "t", "e", "a", "m", ",", "h", "o", "m", "e", "_",
    "s", "c", "o", "r", "e", ",", "a", "w", "a", "y", "_", "s", "c", "o",
    "r", "e", ",", "c", "o", "m", "p", "l", "e", "t", "e", "d">>

Ended == pc \in {"done", "crashed"}
AllParsed == i = 18
\* header plus one row per returned record, the last line terminated
FileComplete ==
    /\ file.exists
    /\ file.text # <<>>
    /\ file.text[Len(file.text)] = "\n"
    /\ Len(ReadLines(file.text)) = Len(ret[1]) + 1
    /\ ReadLines(file.text)[1] = ExpectedHeader

C5_FailedFetchRaises ==
    (Len(fetchLog) > 0 /\ ~fetchLog[Len(fetchLog)].dynamic
       /\ (last.exc # "none" \/ last.status \notin 200..299))
    => (~last.returned /\ last.records = 0)

\* the shapes C9 lists
ListedShapes == {"NoTeams", "TwoRows", "FourRows", "OneAwayLink", "ThreeAwayLinks",
                 "NoHomeLink", "NoAwayCell", "NoHomeCell", "BadAwayScore",
                 "BadHomeScore"}
FirstListed(page) == CHOOSE j \in 1..Len(page) :
                        /\ page[j] \in ListedShapes
                        /\ \A m \in 1..(j - 1) : page[m] \notin ListedShapes

\* C9: a block of an unexpected shape on any week's page ends the run with an
\* error: nothing is returned, the block is not skipped (no record of it or
\* of a later block is appended), and no later week is fetched.
C9_UnexpectedShapeIsFatal ==
    \A k \in 1..Len(fetchLog) :
        (fetchLog[k].soup # <<>>
           /\ \E j \in 1..Len(fetchLog[k].soup[1]) : fetchLog[k].soup[1][j] \in ListedShapes)
        => /\ pc = "crashed"
           /\ err \in {"AttributeError", "ValueError"}
           /\ ret = <<>>
           /\ k = Len(fetchLog)
           /\ i = k - 1
           /\ Len(games) = Len(Origins(SubSeq(fetchLog, 1, k - 1)))
                             + FirstListed(fetchLog[k].soup[1]) - 1
           /\ ~file.exists

\* a teams table of two rows in a later week, after records were gathered
C9_Witness ==
    /\ pc = "crashed"
    /\ err = "ValueError"
    /\ i >= 1
    /\ Len(games) = 2
    /\ ret = <<>>
    /\ fetchLog[Len(fetchLog)].soup = << <<"TwoRows">> >>

C10_LazySingleClient ==
    /\ nclients <= 1
    /\ nclients = 0 <=> (\A k \in 1..Len(fetchLog) : fetchLog[k].dynamic)
    /\ \A k \in 1..Len(fetchLog) :
          IF fetchLog[k].dynamic THEN fetchLog[k].client = 0
          ELSE fetchLog[k].client = 1 /\ client = 1

\* a dynamic fetch, then two static ones sharing one client
C10_Witness ==
    /\ Len(fetchLog) = 3
    /\ fetchLog[1].dynamic
    /\ ~fetchLog[2].dynamic
    /\ ~fetchLog[3].dynamic
    /\ fetchLog[2].client = fetchLog[3].client
    /\ nclients = 1

\* C7: save_to_csv of an empty list raises ValueError and leaves the path as
\* it was, neither created nor truncated.
C7_EmptyRaisesNoFile ==
    (pc \in {"returned", "raised"} /\ data = <<>>) =>
        pc = "raised" /\ err = "ValueError" /\ file = file0

\* the empty list, with a file already at the path
C7_Witness ==
    /\ pc = "raised"
    /\ data = <<>>
    /\ file0 = OldFile
    /\ file = OldFile

RoundTrips ==
    LET lines == ReadLines(file.text)
    IN /\ Len(lines) = Len(data) + 1
       /\ lines[1] = Join(KeyStrs(data[1]))
       /\ \A k \in 1..Len(data) : lines[k + 1] = Join(ValueStrs(data[k]))

\* C8 as stated: N > 0 uniform records are written as a file that reads back
\* as N+1 lines, the keys of record 0 and then each record's values.
C8_RoundTrip == (pc = "returned" /\ Len(data) > 0) => RoundTrips

NoLineBreaks(d) ==
    \A k \in 1..Len(d) : \A j \in 1..Len(d[k]) :
        /\ \A m \in 1..Len(Str(d[k][j].v)) : Str(d[k][j].v)[m] # "\n"
        /\ \A m \in 1..Len(KeyText(d[k][j].k)) : KeyText(d[k][j].k)[m] # "\n"

\* C8 as amended: the same, for records none of whose keys or values has a
\* line break in its string form.
C8_RoundTripNoLineBreaks ==
    (pc = "returned" /\ Len(data) > 0 /\ NoLineBreaks(data)) => RoundTrips

\* two records of two keys, one value holding a comma
C8_Witness ==
    /\ pc = "returned"
    /\ Len(data) = 2
    /\ Len(data[1]) = 2
    /\ NoLineBreaks(data)
    /\ data[1][1].v = StrV(<<"K", ",", "C">>)
    /\ data[2][2].v = IntV(0 - 30)
    /\ Len(ReadLines(file.text)) = 3
====
